---- MODULE Spec2Model ----
(***************************************************************************)
(* A model of keppel's layout-to-text pipeline (src/keppel/main.py and     *)
(* src/keppel/utils.py): the reading-order sort of detected regions, the   *)
(* geometry mapping of a region to page space, the font histogram of a     *)
(* region, the font classifier, the overlap clipping of continuations and  *)
(* the per-chapter loops of the raw and the clean pass.                    *)
(*                                                                         *)
(* Each component has its own specification over the same variables; the   *)
(* variables a specification does not use keep their initial value.        *)
(***************************************************************************)
EXTENDS Integers, Sequences, FiniteSets, TLC

VARIABLES
    sort_pc,    \* _get_labels: "detect" | "sorted" | "assert_failed"
    w_im,       \* width of the page image (im.shape[1])
    out,        \* _get_labels: the list `out` of Label objects
    labels,     \* _sort_labels: its argument `labels`, as it was at the call
    geom_pc,    \* extract_raw 367-368: "call" | "returned" | "ok" | "assert_failed"
    im_pg,      \* the arguments w_im, h_im, w_pg, h_pg of calc_pg_bbox
    pad,        \* the argument pad of calc_pg_bbox, a fraction <<num, den>>
    label,      \* the Label calc_pg_bbox is called on: raw_bbox and pg_bbox
    fonts_pc,   \* extract_fonts: "loop" | "returned"
    pg_chars,   \* pg.chars: the characters of the region, [fontname, size]
    round_k,    \* the argument round_k of extract_fonts
    char_i,     \* how many characters the loop of extract_fonts has consumed
    count,      \* the Counter of extract_fonts, in insertion order
    fonts,      \* the list extract_fonts returns
    det_pc,     \* determine_fonts: "start" | "text_loop" | "queue" | "done" |
                \*   "returned_early" | "index_error"
    cutoff,     \* the argument cutoff of determine_fonts, in hundredths
    text_cnt,   \* the global Counters of determine_fonts, in insertion order
    head_cnt,
    bad_cnt,
    text_i,     \* the index i of the loop over text_cnt.most_common()
    text_fonts, \* the three output lists of determine_fonts
    head_fonts,
    bad_fonts,
    blacklist,  \* the set of (kind, idx) pairs of determine_fonts
    q,          \* the work queue of determine_fonts
    n_lookups,  \* per kind, how many most_common() lookups determine_fonts made
    cfg_fonts,  \* what cfg.write_fonts was given, None before
    clip_pc,    \* clip_overlap: "call" | "loop" | "returned"
    args,       \* the arguments of clip_overlap: body, txt, min_overlap
    body,       \* clip_overlap's local body, after line 18
    txt,        \* clip_overlap's local txt, after line 18
    clip_i,     \* the last value of i the loop of clip_overlap has tried
    overlap,    \* clip_overlap's local overlap
    clip_ret,   \* what clip_overlap returned, None before
    scope,      \* which inputs the environment of extract_raw draws from:
                \*   "chapters" (few kinds of region) | "labels" (one page, all kinds)
    chapters,   \* cfg.chapters: the (start, end) page range of each chapter
    use_pdfplumber, \* cfg.use_pdfplumber
    extract_figs,   \* the argument extract_figs of extract_raw
    raw_pc,     \* extract_raw: "chapter" | "page" | "plumber_label" | "label" |
                \*   "done" | "assert_failed"
    ch_i,       \* extract_raw: the chapter index ch_i, 0 before the first
    pg_k,       \* extract_raw: how many pages of the chapter are finished
    boxes,      \* the labels of the page still to be processed (either path)
    label_num,  \* the pdfplumber path's enumerate index
    last_entry, \* extract_raw's last_entry
    last_y1,    \* extract_raw's last_y1, as a numerator over the page's dy
    pretracker, \* PreTracker.entries of the current chapter
    rawdir,     \* the raw files written: chapter index -> records
    img_dir,    \* the files written under img_dir: <<ch, name>> -> content
    raw_kinds,  \* for each entry of pretracker, the label type its label came with
    clean_pc,   \* clean_raw: "chapter" | "entry" | "done" | "file_not_found"
    clean_i,    \* clean_raw: the chapter index i, 0 before the first
    data,       \* clean_raw: the records loaded from the chapter's raw file
    entry_k,    \* clean_raw: how many records of data the loop has consumed
    tracker,    \* JoinTracker.entries of the current chapter
    add_calls,  \* per chapter, the records JoinTracker.add_entry was called with
    early_exits, \* per chapter, the positions whose add_entry raised EarlyExitException
    cleandir    \* the clean files written: chapter index -> records

sortVars == <<sort_pc, w_im, out, labels>>
geomVars == <<geom_pc, im_pg, pad, label>>
fontsVars == <<fonts_pc, pg_chars, round_k, char_i, count, fonts>>
detVars == <<det_pc, cutoff, text_cnt, head_cnt, bad_cnt, text_i, text_fonts,
             head_fonts, bad_fonts, blacklist, q, n_lookups, cfg_fonts>>
clipVars == <<clip_pc, args, body, txt, clip_i, overlap, clip_ret>>
rawVars == <<scope, chapters, use_pdfplumber, extract_figs, raw_pc, ch_i, pg_k,
             boxes, label_num, last_entry, last_y1, pretracker, rawdir, img_dir,
             raw_kinds>>
cleanVars == <<clean_pc, clean_i, data, entry_k, tracker, add_calls, early_exits,
               cleandir>>
vars == <<sortVars, geomVars, fontsVars, detVars, clipVars, rawVars, cleanVars>>

\* what the actions of one component leave unchanged
notSortVars == <<geomVars, fontsVars, detVars, clipVars, rawVars, cleanVars>>
notGeomVars == <<sortVars, fontsVars, detVars, clipVars, rawVars, cleanVars>>
notFontsVars == <<sortVars, geomVars, detVars, clipVars, rawVars, cleanVars>>
notDetVars == <<sortVars, geomVars, fontsVars, clipVars, rawVars, cleanVars>>
notClipVars == <<sortVars, geomVars, fontsVars, detVars, rawVars, cleanVars>>
notRawVars == <<sortVars, geomVars, fontsVars, detVars, clipVars, cleanVars>>
notCleanVars == <<sortVars, geomVars, fontsVars, detVars, clipVars, rawVars>>

----------------------------------------------------------------------------
(* Bounds of the model *)

\* the most regions the detector returns for one page
MaxLabels == 3

----------------------------------------------------------------------------
(* Helpers on sequences *)

Range(s) == {s[i] : i \in 1..Len(s)}

Min(S) == CHOOSE m \in S : \A x \in S : m <= x
Max(S) == CHOOSE m \in S : \A x \in S : m >= x

\* s without its i-th element
RemoveAt(s, i) == SubSeq(s, 1, i - 1) \o SubSeq(s, i + 1, Len(s))

----------------------------------------------------------------------------
(* Label and _get_labels (main.py 52-71, 159-235) *)

\* the image widths of the model: the split threshold 0.98 * w / 2 is 49 and 49.49
ImageWidths == {100, 101}

\* detector categories (category_index, category_name)
Categories == {<<0, "title">>, <<2, "plain text">>}

\* coordinates a polygon point may take, around the split threshold
XCoords == {48, 49, 50}
YCoords == {0, 1, 2}

\* region_poly: here two opposite corners of the polygon
Polygons == {<<c1, c2>> : c1 \in XCoords \X YCoords, c2 \in XCoords \X YCoords}

\* main.py 186-187: the axis-aligned bounding box of a polygon
BBoxOf(poly) ==
    LET xs == {poly[i][1] : i \in 1..Len(poly)}
        ys == {poly[i][2] : i \in 1..Len(poly)}
    IN  <<Min(xs), Min(ys), Max(xs), Max(ys)>>

\* main.py 188: assert x0 < x1 and y0 < y1
ValidBBox(b) == b[1] < b[3] /\ b[2] < b[4]

\* main.py 203: Label(idx, label_type, bbox); obj is the identity of the Python
\* object (its position in the detector's output), which __eq__ does not read
NewLabel(obj, idx, label_type, bbox) ==
    [obj |-> obj, id |-> idx, label_type |-> label_type, raw_bbox |-> bbox]

\* the dataclass-generated Label.__eq__: all fields, not the object identity
LabelEq(a, b) ==
    a.id = b.id /\ a.label_type = b.label_type /\ a.raw_bbox = b.raw_bbox

\* main.py 210 and 211: l.raw_bbox[0] < left_pad * w_im / 2 with left_pad = 0.98,
\* in hundredths: 100 * x0 < 98 * w_im / 2
LeftPadPct == 98
InLeft(l, w) == 2 * 100 * l.raw_bbox[1] < LeftPadPct * w

\* main.py 211
LeftBlocks(ls, w) == SelectSeq(ls, LAMBDA l : InLeft(l, w))

\* main.py 212: [b for b in labels if b not in left_blocks]
RightBlocks(ls, w) ==
    LET left == LeftBlocks(ls, w)
    IN  SelectSeq(ls, LAMBDA b : ~ \E i \in 1..Len(left) : LabelEq(left[i], b))

SortKeyLeftEdge(b) == b.raw_bbox[1]

\* main.py 214: sort_key
SortKey(b) == b.raw_bbox[2]

\* main.py 215-216: sorted(blocks, key=sort_key), a stable sort
RECURSIVE Sorted(_)
Sorted(s) ==
    IF s = <<>> THEN <<>>
    ELSE LET m == Min({SortKey(s[i]) : i \in 1..Len(s)})
             i == Min({j \in 1..Len(s) : SortKey(s[j]) = m})
         IN  <<s[i]>> \o Sorted(RemoveAt(s, i))

RenumberFromOne(blocks) == [i \in 1..Len(blocks) |-> [blocks[i] EXCEPT !.id = i]]

\* main.py 220-221: for i, b in enumerate(blocks): b.id = i
Renumber(blocks) == [i \in 1..Len(blocks) |-> [blocks[i] EXCEPT !.id = i - 1]]

\* main.py 209-232 with return_split_idx false
SortLabels(ls, w) ==
    Renumber(Sorted(LeftBlocks(ls, w)) \o Sorted(RightBlocks(ls, w)))

\* the value of a field that was never set (field(default=None))
None == "None"

GeomIdle ==
    /\ geom_pc = "idle"
    /\ im_pg = None
    /\ pad = None
    /\ label = None

FontsIdle ==
    /\ fonts_pc = "idle"
    /\ pg_chars = <<>>
    /\ round_k = 0
    /\ char_i = 0
    /\ count = <<>>
    /\ fonts = None

DetIdle ==
    /\ det_pc = "idle"
    /\ cutoff = 0
    /\ text_cnt = <<>> /\ head_cnt = <<>> /\ bad_cnt = <<>>
    /\ text_i = 0
    /\ text_fonts = <<>> /\ head_fonts = <<>> /\ bad_fonts = <<>>
    /\ blacklist = {}
    /\ q = <<>>
    /\ n_lookups = <<0, 0, 0>>
    /\ cfg_fonts = None

SortIdle == sort_pc = "idle" /\ w_im = 0 /\ out = <<>> /\ labels = <<>>

ClipIdle ==
    /\ clip_pc = "idle"
    /\ args = None
    /\ body = <<>> /\ txt = <<>>
    /\ clip_i = 0
    /\ overlap = 0
    /\ clip_ret = None

\* last_entry: TrackerEntry = None
NoEntry == [label_type |-> None]

\* extract_raw is not running
RawAtRest ==
    /\ scope = "idle"
    /\ use_pdfplumber = FALSE
    /\ extract_figs = FALSE
    /\ raw_pc = "idle"
    /\ ch_i = 0
    /\ pg_k = 0
    /\ boxes = <<>>
    /\ label_num = 0
    /\ last_entry = NoEntry
    /\ last_y1 = 0
    /\ pretracker = <<>>
    /\ img_dir = <<>>
    /\ raw_kinds = <<>>

RawIdle == RawAtRest /\ chapters = <<>> /\ rawdir = <<>>

CleanIdle ==
    /\ clean_pc = "idle"
    /\ clean_i = 0
    /\ data = <<>>
    /\ entry_k = 0
    /\ tracker = <<>>
    /\ add_calls = <<>>
    /\ early_exits = <<>>
    /\ cleandir = <<>>

\* the components a specification does not run
NotSortIdle == GeomIdle /\ FontsIdle /\ DetIdle /\ ClipIdle /\ RawIdle /\ CleanIdle
NotGeomIdle == SortIdle /\ FontsIdle /\ DetIdle /\ ClipIdle /\ RawIdle /\ CleanIdle
NotFontsIdle == SortIdle /\ GeomIdle /\ DetIdle /\ ClipIdle /\ RawIdle /\ CleanIdle
NotDetIdle == SortIdle /\ GeomIdle /\ FontsIdle /\ ClipIdle /\ RawIdle /\ CleanIdle
NotClipIdle == SortIdle /\ GeomIdle /\ FontsIdle /\ DetIdle /\ RawIdle /\ CleanIdle
NotRawIdle == SortIdle /\ GeomIdle /\ FontsIdle /\ DetIdle /\ ClipIdle /\ CleanIdle
NotCleanIdle == SortIdle /\ GeomIdle /\ FontsIdle /\ DetIdle /\ ClipIdle

\* main.py 182-204: one iteration of `for category in layout`
Detect ==
    /\ sort_pc = "detect"
    /\ Len(out) < MaxLabels
    /\ \E cat \in Categories, poly \in Polygons :
        IF ValidBBox(BBoxOf(poly))
        THEN /\ out' = Append(out, NewLabel(Len(out) + 1, cat[1], cat[2], BBoxOf(poly)))
             /\ sort_pc' = sort_pc
        ELSE /\ sort_pc' = "assert_failed"
             /\ out' = out
    /\ UNCHANGED <<w_im, labels>>
    /\ UNCHANGED notSortVars

\* main.py 234-235: out = _sort_labels(out); return out
SortAndReturn ==
    /\ sort_pc = "detect"
    /\ labels' = out
    /\ out' = SortLabels(out, w_im)
    /\ sort_pc' = "sorted"
    /\ UNCHANGED w_im
    /\ UNCHANGED notSortVars

SortInit ==
    /\ sort_pc = "detect"
    /\ w_im \in ImageWidths
    /\ out = <<>>
    /\ labels = <<>>
    /\ NotSortIdle

SortNext == Detect \/ SortAndReturn

SpecSort == SortInit /\ [][SortNext]_vars

\* the claims' own reading of "left group": left edge strictly below 0.98 * w / 2
IsLeftRegion(l) == 200 * l.raw_bbox[1] < 98 * w_im
NumLeft == Cardinality({i \in 1..Len(labels) : IsLeftRegion(labels[i])})

\* C1: _sort_labels returns the regions whose left edge is strictly below
\* left_pad * w / 2, by non-decreasing top edge, followed by all the remaining
\* regions, by non-decreasing top edge: the first NumLeft outputs are exactly
\* the left regions of the input, the rest are exactly its right regions.
C1_LeftThenRightByTop ==
    sort_pc = "sorted" =>
        /\ Len(out) = Len(labels)
        /\ {out[i].obj : i \in 1..NumLeft} =
               {labels[i].obj : i \in {j \in 1..Len(labels) : IsLeftRegion(labels[j])}}
        /\ {out[i].obj : i \in (NumLeft + 1)..Len(out)} =
               {labels[i].obj : i \in {j \in 1..Len(labels) : ~ IsLeftRegion(labels[j])}}
        /\ \A i \in 1..Len(out) : IsLeftRegion(out[i]) <=> i <= NumLeft
        /\ \A i, j \in 1..Len(out) :
               (i < j /\ (j <= NumLeft \/ i > NumLeft)) =>
                   out[i].raw_bbox[2] <= out[j].raw_bbox[2]

\* C1 witness: a sorted page with both groups, a left region that was detected
\* after a right one, and a group whose detection order was not by top edge
C1_Witness ==
    /\ sort_pc = "sorted"
    /\ NumLeft > 0 /\ NumLeft < Len(labels)
    /\ \E i, j \in 1..Len(labels) :
           i < j /\ ~ IsLeftRegion(labels[i]) /\ IsLeftRegion(labels[j])
    /\ \E i, j \in 1..Len(labels) :
           /\ i < j
           /\ IsLeftRegion(labels[i]) <=> IsLeftRegion(labels[j])
           /\ labels[i].raw_bbox[2] > labels[j].raw_bbox[2]

\* C2: after the sort the output holds every input region exactly once, with its
\* category and box unchanged, and the region at position i has id i (from 0).
C2_PermutationWithSequentialIds ==
    sort_pc = "sorted" =>
        /\ Len(out) = Len(labels)
        /\ \A k \in 1..Len(labels) :
               Cardinality({i \in 1..Len(out) : out[i].obj = labels[k].obj}) = 1
        /\ \A i \in 1..Len(out) : \E k \in 1..Len(labels) :
               /\ out[i].obj = labels[k].obj
               /\ out[i].label_type = labels[k].label_type
               /\ out[i].raw_bbox = labels[k].raw_bbox
        /\ \A i \in 1..Len(out) : out[i].id = i - 1

\* C2 witness: a sorted page of MaxLabels regions, two of them equal as Labels,
\* whose order changed and whose detector ids were not 0..n-1
C2_Witness ==
    /\ sort_pc = "sorted"
    /\ Len(out) >= 3
    /\ \E i \in 1..Len(out) : out[i].obj # labels[i].obj
    /\ \E i, j \in 1..Len(labels) : i # j /\ LabelEq(labels[i], labels[j])
    /\ \E i \in 1..Len(labels) : labels[i].id # i - 1

----------------------------------------------------------------------------
(* Label.calc_pg_bbox (main.py 61-71) and its call in extract_raw (367-368) *)

\* raw coordinates run over 0..MaxCoord
MaxCoord == 3

\* image sizes (pixels) and page sizes (points): ratios below, at and above 1
ImageSizes == {<<1, 2>>, <<3, 1>>, <<4, 4>>}
PageSizes == {<<1, 3>>, <<2, 1>>, <<4, 4>>}

\* pad fractions num/den >= 0: none, the default 0.01, a half, and three
Pads == {<<0, 1>>, <<1, 100>>, <<1, 2>>, <<3, 1>>}

RawBBoxes ==
    {b \in (0..MaxCoord) \X (0..MaxCoord) \X (0..MaxCoord) \X (0..MaxCoord) :
        ValidBBox(b)}

\* A page-space box is kept exactly, as numerators over the common denominators
\* dx = 8 * w_im * pad.den and dy = 16 * h_im * pad.den (both positive):
\*   x * (w_pg / w_im) -+ pad * w_im / 8  =  (8 * den * x * w_pg -+ num * w_im^2) / dx
\*   y * (h_pg / h_im) -+ pad * h_im / 16 = (16 * den * y * h_pg -+ num * h_im^2) / dy
PadShrinks(raw_bbox, d, p) ==
    LET pW == p[1] * d.w_im * d.w_im
        pH == p[1] * d.h_im * d.h_im
    IN  [x0 |-> 8 * p[2] * raw_bbox[1] * d.w_pg + pW,
         y0 |-> 16 * p[2] * raw_bbox[2] * d.h_pg + pH,
         x1 |-> 8 * p[2] * raw_bbox[3] * d.w_pg - pW,
         y1 |-> 16 * p[2] * raw_bbox[4] * d.h_pg - pH,
         dx |-> 8 * d.w_im * p[2],
         dy |-> 16 * d.h_im * p[2]]

\* main.py 62-71
CalcPgBBox(raw_bbox, d, p) ==
    LET pW == p[1] * d.w_im * d.w_im
        pH == p[1] * d.h_im * d.h_im
    IN  [x0 |-> 8 * p[2] * raw_bbox[1] * d.w_pg - pW,
         y0 |-> 16 * p[2] * raw_bbox[2] * d.h_pg - pH,
         x1 |-> 8 * p[2] * raw_bbox[3] * d.w_pg + pW,
         y1 |-> 16 * p[2] * raw_bbox[4] * d.h_pg + pH,
         dx |-> 8 * d.w_im * p[2],
         dy |-> 16 * d.h_im * p[2]]

\* main.py 368: assert x0 < x1 and y0 < y1, on a page-space box; the
\* denominators dx and dy are positive, so the numerators decide
ValidPgBBox(b) == b.x0 < b.x1 /\ b.y0 < b.y1

\* main.py 367: label.calc_pg_bbox(...), which stores and returns self.pg_bbox
CallCalcPgBBox ==
    /\ geom_pc = "call"
    /\ label' = [label EXCEPT !.pg_bbox = CalcPgBBox(label.raw_bbox, im_pg, pad)]
    /\ geom_pc' = "returned"
    /\ UNCHANGED <<im_pg, pad>>
    /\ UNCHANGED notGeomVars

\* main.py 368
AssertPgBBox ==
    /\ geom_pc = "returned"
    /\ geom_pc' = IF ValidPgBBox(label.pg_bbox) THEN "ok" ELSE "assert_failed"
    /\ UNCHANGED <<im_pg, pad, label>>
    /\ UNCHANGED notGeomVars

GeomInit ==
    /\ geom_pc = "call"
    /\ \E im \in ImageSizes, pg \in PageSizes :
          im_pg = [w_im |-> im[1], h_im |-> im[2], w_pg |-> pg[1], h_pg |-> pg[2]]
    /\ pad \in Pads
    /\ \E b \in RawBBoxes : label = [raw_bbox |-> b, pg_bbox |-> None]
    /\ NotGeomIdle

GeomNext == CallCalcPgBBox \/ AssertPgBBox

SpecGeom == GeomInit /\ [][GeomNext]_vars

\* C3: for a raw box with x0 < x1 and y0 < y1, positive image and page sizes and
\* pad >= 0, the page-space box calc_pg_bbox returns has x0 < x1 and y0 < y1.
C3_PgBBoxStaysValid ==
    geom_pc \in {"returned", "ok", "assert_failed"} =>
        /\ label.pg_bbox.dx > 0 /\ label.pg_bbox.dy > 0
        /\ label.pg_bbox.x0 < label.pg_bbox.x1
        /\ label.pg_bbox.y0 < label.pg_bbox.y1
        /\ geom_pc # "assert_failed"

\* C3 witness: a box was mapped with a positive pad and unequal axis ratios, its
\* left edge moved left of the page origin, and the assertion passed
C3_Witness ==
    /\ geom_pc = "ok"
    /\ pad[1] > 0
    /\ im_pg.w_pg # im_pg.w_im /\ im_pg.h_pg * im_pg.w_im # im_pg.w_pg * im_pg.h_im
    /\ label.pg_bbox.x0 < 0
    /\ label.raw_bbox[3] = label.raw_bbox[1] + 1

----------------------------------------------------------------------------
(* extract_fonts (main.py 74-84) and round_to_nearest_k (utils.py 8) *)

\* the most characters in a region
MaxChars == 3

\* Font sizes are kept in eighths of a point: 79 is 9.875, 80 is 10.0.
FontNames == {"Times", "Arial"}
FontSizes == {79, 80, 81, 82, 84}
Chars == [fontname : FontNames, size : FontSizes]

RoundKs == {0, 4}

\* Python's round() of num / den (den > 0): to the nearest integer, a half to
\* the even neighbour
PyRound(num, den) ==
    LET fl == num \div den
        r2 == 2 * (num - fl * den)
    IN  IF r2 < den THEN fl
        ELSE IF r2 > den THEN fl + 1
        ELSE IF fl % 2 = 0 THEN fl ELSE fl + 1

\* utils.py 8: round(number * k) / k, on a size in eighths, for k dividing 8
RoundToNearestK(size8, k) == PyRound(size8 * k, 8) * (8 \div k)

\* main.py 80
Bucket(size8, k) == IF k # 0 THEN RoundToNearestK(size8, k) ELSE size8

\* Counter.update([entry]) that forgets the earlier occurrences of the entry
CounterResetOne(cnt, entry) ==
    IF \E i \in 1..Len(cnt) : cnt[i][1] = entry
    THEN [i \in 1..Len(cnt) |->
             IF cnt[i][1] = entry THEN <<entry, 1>> ELSE cnt[i]]
    ELSE Append(cnt, <<entry, 1>>)

\* main.py 82: count.update([entry]); a Counter keeps its keys in insertion order
CounterAddOne(cnt, entry) ==
    IF \E i \in 1..Len(cnt) : cnt[i][1] = entry
    THEN [i \in 1..Len(cnt) |->
             IF cnt[i][1] = entry THEN <<entry, cnt[i][2] + 1>> ELSE cnt[i]]
    ELSE Append(cnt, <<entry, 1>>)

\* main.py 76-82: one iteration of `for ch in pg.chars` (clean is False)
CountChar ==
    /\ fonts_pc = "loop"
    /\ char_i < Len(pg_chars)
    /\ LET ch == pg_chars[char_i + 1]
           entry == <<ch.fontname, Bucket(ch.size, round_k)>>
       IN  count' = CounterAddOne(count, entry)
    /\ char_i' = char_i + 1
    /\ UNCHANGED <<fonts_pc, pg_chars, round_k, fonts>>
    /\ UNCHANGED notFontsVars

\* main.py 84
ReturnFonts ==
    /\ fonts_pc = "loop"
    /\ char_i = Len(pg_chars)
    /\ fonts' = count
    /\ fonts_pc' = "returned"
    /\ UNCHANGED <<pg_chars, round_k, char_i, count>>
    /\ UNCHANGED notFontsVars

SeqsUpTo(S, n) == UNION {[1..k -> S] : k \in 0..n}

FontsInit ==
    /\ fonts_pc = "loop"
    /\ pg_chars \in SeqsUpTo(Chars, MaxChars)
    /\ round_k \in RoundKs
    /\ char_i = 0
    /\ count = <<>>
    /\ fonts = None
    /\ NotFontsIdle

FontsNext == CountChar \/ ReturnFonts

SpecFonts == FontsInit /\ [][FontsNext]_vars

RECURSIVE SumFreqs(_)
SumFreqs(hist) == IF hist = <<>> THEN 0 ELSE Head(hist)[2] + SumFreqs(Tail(hist))

\* C5: the histogram extract_fonts returns has pairwise distinct keys
\* (font name, bucketed size) and counts that sum to the number of characters.
C5_HistogramCountsEveryChar ==
    fonts_pc = "returned" =>
        /\ \A i, j \in 1..Len(fonts) : i # j => fonts[i][1] # fonts[j][1]
        /\ SumFreqs(fonts) = Len(pg_chars)

\* C5 witness: a returned histogram in which two characters of different raw
\* sizes fell into one bucket, beside a second key
C5_Witness ==
    /\ fonts_pc = "returned"
    /\ round_k = 4
    /\ Len(fonts) = 2
    /\ \E i, j \in 1..Len(pg_chars) :
           /\ pg_chars[i].fontname = pg_chars[j].fontname
           /\ pg_chars[i].size # pg_chars[j].size
           /\ Bucket(pg_chars[i].size, 4) = Bucket(pg_chars[j].size, 4)

----------------------------------------------------------------------------
(* Parser.determine_fonts (main.py 418-490) *)

\* the count of a frequent font; a rare font occurs once
MaxCount == 3

\* font identities (name, bucketed size in eighths of a point)
FontIds == {<<"Times", 80>>, <<"Times", 96>>, <<"Arial", 80>>}

\* the occurrence counts a font may have in a global histogram
FontCounts == {1, MaxCount}

\* cutoffs in hundredths: the default 0.10, 0.30 and 1
Cutoffs == {10, 30, 100}

\* how many of the three fonts a global histogram of the model may hold
HistSizes == {0, 1, 2}

\* a Counter: its (font, count) items in insertion order, fonts distinct
Counters ==
    {c \in UNION {[1..k -> FontIds \X FontCounts] : k \in HistSizes} :
        \A i, j \in 1..Len(c) : i # j => c[i][1] # c[j][1]}

\* Counter.most_common(): sorted(items, key=count, reverse=True), a stable sort,
\* so fonts of equal count stay in insertion order
RECURSIVE MostCommon(_)
MostCommon(cnt) ==
    IF cnt = <<>> THEN <<>>
    ELSE LET m == Max({cnt[i][2] : i \in 1..Len(cnt)})
             i == Min({j \in 1..Len(cnt) : cnt[j][2] = m})
         IN  <<cnt[i]>> \o MostCommon(RemoveAt(cnt, i))

\* Counter.total()
Total(cnt) == SumFreqs(cnt)

BelowCutoffOfTop(c, cnt, co) == c * 100 < co * MostCommon(cnt)[1][2]

\* main.py 458-459 and 480-482: freq = cnt / total; freq < cutoff
BelowCutoff(c, cnt, co) == c * 100 < co * Total(cnt)

\* main.py 473: cnts = [text_cnt, head_cnt, bad_cnt], indexed by kind 0..2
Cnts(kind) == CASE kind = 0 -> text_cnt [] kind = 1 -> head_cnt [] kind = 2 -> bad_cnt

\* main.py 472: fonts = [text_fonts, head_fonts, bad_fonts], indexed by kind 0..2
FontsOf(kind) ==
    CASE kind = 0 -> text_fonts [] kind = 1 -> head_fonts [] kind = 2 -> bad_fonts

ClaimedByNobodyUnchecked(font, kind) == TRUE

\* main.py 484-485: all(font not in fonts[i] for i in other_idxs)
ClaimedByNobody(font, kind) ==
    \A i \in 0..2 : i # kind => font \notin Range(FontsOf(i))

\* main.py 421-424: the book has fonts stored and the user does not answer "y"
DeclineOverwrite ==
    /\ det_pc = "start"
    /\ det_pc' = "returned_early"
    /\ UNCHANGED <<cutoff, text_cnt, head_cnt, bad_cnt, text_i, text_fonts,
                   head_fonts, bad_fonts, blacklist, q, n_lookups, cfg_fonts>>
    /\ UNCHANGED notDetVars

\* main.py 426-456: the histograms are accumulated and the loop begins
BeginTextLoop ==
    /\ det_pc = "start"
    /\ det_pc' = "text_loop"
    /\ UNCHANGED <<cutoff, text_cnt, head_cnt, bad_cnt, text_i, text_fonts,
                   head_fonts, bad_fonts, blacklist, q, n_lookups, cfg_fonts>>
    /\ UNCHANGED notDetVars

\* the loop of main.py 457 has a next item and it is not below the cutoff
TextLoopContinues ==
    /\ text_i < Len(text_cnt)
    /\ ~ BelowCutoff(MostCommon(text_cnt)[text_i + 1][2], text_cnt, cutoff)

\* main.py 457-470: one iteration of the loop over text_cnt.most_common()
TextLoopStep ==
    /\ det_pc = "text_loop"
    /\ TextLoopContinues
    /\ LET font == MostCommon(text_cnt)[text_i + 1][1]
       IN  IF head_cnt = <<>>
           THEN \* 462: head_cnt.most_common()[0] raises IndexError
                /\ det_pc' = "index_error"
                /\ n_lookups' = [n_lookups EXCEPT ![2] = @ + 1]
                /\ UNCHANGED <<text_i, text_fonts, blacklist>>
           ELSE IF font = MostCommon(head_cnt)[1][1]
           THEN \* 463-465
                /\ blacklist' = blacklist \cup {<<1, text_i>>}
                /\ text_i' = text_i + 1
                /\ n_lookups' = [n_lookups EXCEPT ![2] = @ + 1]
                /\ UNCHANGED <<det_pc, text_fonts>>
           ELSE IF bad_cnt = <<>>
           THEN \* 466: bad_cnt.most_common()[0] raises IndexError
                /\ det_pc' = "index_error"
                /\ n_lookups' = [n_lookups EXCEPT ![2] = @ + 1, ![3] = @ + 1]
                /\ UNCHANGED <<text_i, text_fonts, blacklist>>
           ELSE IF font = MostCommon(bad_cnt)[1][1]
           THEN \* 466-468
                /\ blacklist' = blacklist \cup {<<2, text_i>>}
                /\ text_i' = text_i + 1
                /\ n_lookups' = [n_lookups EXCEPT ![2] = @ + 1, ![3] = @ + 1]
                /\ UNCHANGED <<det_pc, text_fonts>>
           ELSE \* 470
                /\ text_fonts' = Append(text_fonts, font)
                /\ text_i' = text_i + 1
                /\ n_lookups' = [n_lookups EXCEPT ![2] = @ + 1, ![3] = @ + 1]
                /\ UNCHANGED <<det_pc, blacklist>>
    /\ UNCHANGED <<cutoff, text_cnt, head_cnt, bad_cnt, head_fonts, bad_fonts,
                   q, cfg_fonts>>
    /\ UNCHANGED notDetVars

\* main.py 459-460 (break) or the end of the loop, then 472-476: the queue is
\* seeded with (1, 0) and (2, 0), less the blacklisted pairs
SeedQueue ==
    /\ det_pc = "text_loop"
    /\ ~ TextLoopContinues
    /\ q' = SelectSeq(<<<<1, 0>>, <<2, 0>>>>, LAMBDA x : x \notin blacklist)
    /\ det_pc' = "queue"
    /\ UNCHANGED <<cutoff, text_cnt, head_cnt, bad_cnt, text_i, text_fonts,
                   head_fonts, bad_fonts, blacklist, n_lookups, cfg_fonts>>
    /\ UNCHANGED notDetVars

\* main.py 477-488: one iteration of `while q`
QueueStep ==
    /\ det_pc = "queue"
    /\ q # <<>>
    /\ LET kind == Head(q)[1]
           idx == Head(q)[2]
           ranked == MostCommon(Cnts(kind))
           nxt == <<kind, idx + 1>>
       IN  /\ n_lookups' = [n_lookups EXCEPT ![kind + 1] = @ + 1]
           /\ IF idx >= Len(ranked)
              THEN \* 479: most_common()[idx] raises IndexError
                   /\ det_pc' = "index_error"
                   /\ q' = Tail(q)
                   /\ UNCHANGED <<head_fonts, bad_fonts>>
              ELSE IF BelowCutoff(ranked[idx + 1][2], Cnts(kind), cutoff)
              THEN \* 482-483
                   /\ q' = Tail(q)
                   /\ UNCHANGED <<det_pc, head_fonts, bad_fonts>>
              ELSE /\ LET font == ranked[idx + 1][1]
                          add == ClaimedByNobody(font, kind)
                      IN  /\ head_fonts' = IF kind = 1 /\ add
                                           THEN Append(head_fonts, font)
                                           ELSE head_fonts
                          /\ bad_fonts' = IF kind = 2 /\ add
                                          THEN Append(bad_fonts, font)
                                          ELSE bad_fonts
                   /\ q' = IF nxt \notin blacklist
                           THEN Append(Tail(q), nxt)
                           ELSE Tail(q)
                   /\ UNCHANGED det_pc
    /\ UNCHANGED <<cutoff, text_cnt, head_cnt, bad_cnt, text_i, text_fonts,
                   blacklist, cfg_fonts>>
    /\ UNCHANGED notDetVars

\* main.py 490: self.cfg.write_fonts(fonts)
WriteFonts ==
    /\ det_pc = "queue"
    /\ q = <<>>
    /\ cfg_fonts' = <<text_fonts, head_fonts, bad_fonts>>
    /\ det_pc' = "done"
    /\ UNCHANGED <<cutoff, text_cnt, head_cnt, bad_cnt, text_i, text_fonts,
                   head_fonts, bad_fonts, blacklist, q, n_lookups>>
    /\ UNCHANGED notDetVars

DetInit ==
    /\ det_pc = "start"
    /\ cutoff \in Cutoffs
    /\ text_cnt \in Counters
    /\ head_cnt \in Counters
    /\ bad_cnt \in Counters
    /\ text_i = 0
    /\ text_fonts = <<>> /\ head_fonts = <<>> /\ bad_fonts = <<>>
    /\ blacklist = {}
    /\ q = <<>>
    /\ n_lookups = <<0, 0, 0>>
    /\ cfg_fonts = None
    /\ NotDetIdle

DetNext ==
    \/ DeclineOverwrite
    \/ BeginTextLoop
    \/ TextLoopStep
    \/ SeedQueue
    \/ QueueStep
    \/ WriteFonts

SpecDet == DetInit /\ [][DetNext]_vars

\* the share of font f in histogram cnt is at least co hundredths
CountOf(cnt, f) == IF \E i \in 1..Len(cnt) : cnt[i][1] = f
                   THEN (CHOOSE c \in Range(cnt) : c[1] = f)[2]
                   ELSE 0
ShareAtLeast(cnt, f, co) == Total(cnt) > 0 /\ CountOf(cnt, f) * 100 >= co * Total(cnt)

\* C6: when determine_fonts completes, the body, heading and noise font sets
\* it writes are pairwise disjoint.
C6_WrittenSetsDisjoint ==
    det_pc = "done" =>
        \A i, j \in 1..3 :
            i < j => Range(cfg_fonts[i]) \cap Range(cfg_fonts[j]) = {}

\* C6 witness: a completed run that wrote three non-empty sets, in which the
\* top noise font is also a heading font of share >= cutoff
C6_Witness ==
    /\ det_pc = "done"
    /\ \A i \in 1..3 : cfg_fonts[i] # <<>>
    /\ \E f \in Range(cfg_fonts[3]) : ShareAtLeast(head_cnt, f, cutoff)

\* C7: every font placed in the body, heading or noise list has a share
\* (count / total) of at least the cutoff in the histogram of that category.
C7_AdmittedFontsMeetCutoff ==
    /\ \A f \in Range(text_fonts) : ShareAtLeast(text_cnt, f, cutoff)
    /\ \A f \in Range(head_fonts) : ShareAtLeast(head_cnt, f, cutoff)
    /\ \A f \in Range(bad_fonts) : ShareAtLeast(bad_cnt, f, cutoff)

\* C7 witness: a completed run that admitted a font to each list while each
\* histogram also held a font below the cutoff
C7_Witness ==
    /\ det_pc = "done"
    /\ text_fonts # <<>> /\ head_fonts # <<>> /\ bad_fonts # <<>>
    /\ \A k \in 0..2 : \E i \in 1..Len(Cnts(k)) :
           ~ ShareAtLeast(Cnts(k), Cnts(k)[i][1], cutoff)

----------------------------------------------------------------------------
(* clip_overlap (utils.py 15-23) *)

\* the longest string clip_overlap is given
MaxStr == 3

\* a string is a sequence of characters; " " is whitespace
Alphabet == {"a", "b", " "}
Whitespace == {" "}
Strings == SeqsUpTo(Alphabet, MaxStr)

\* the values of min_overlap (the default 8 is longer than any string here)
MinOverlaps == {0, 1, 2, 3, 8}

\* str.rstrip() and str.lstrip(): whitespace removed from one end
RECURSIVE RStrip(_)
RStrip(s) ==
    IF s # <<>> /\ s[Len(s)] \in Whitespace THEN RStrip(SubSeq(s, 1, Len(s) - 1)) ELSE s

RECURSIVE LStrip(_)
LStrip(s) == IF s # <<>> /\ Head(s) \in Whitespace THEN LStrip(Tail(s)) ELSE s

\* body[-i:] and txt[:i] for 1 <= i <= len, and txt[i:]
Suffix(s, i) == SubSeq(s, Len(s) - i + 1, Len(s))
Prefix(s, i) == SubSeq(s, 1, i)
DropPrefix(s, i) == SubSeq(s, i + 1, Len(s))

KeepFirstOverlap(ov, b, t, i) == IF Suffix(b, i) = Prefix(t, i) /\ ov = 0 THEN i ELSE ov

\* utils.py 20-21: if body[-i:] == txt[:i]: overlap = i
NextOverlap(ov, b, t, i) == IF Suffix(b, i) = Prefix(t, i) THEN i ELSE ov

ClipAlways(t, ov, min_ov) == DropPrefix(t, ov)

\* utils.py 23: txt[overlap:] if overlap >= min_overlap else txt
ClipResult(t, ov, min_ov) == IF ov >= min_ov THEN DropPrefix(t, ov) ELSE t

\* utils.py 17-18
ClipStrip ==
    /\ clip_pc = "call"
    /\ overlap' = 0
    /\ body' = RStrip(args.body)
    /\ txt' = LStrip(args.txt)
    /\ clip_pc' = "loop"
    /\ UNCHANGED <<args, clip_i, clip_ret>>
    /\ UNCHANGED notClipVars

\* utils.py 19-21: one iteration of `for i in range(1, min(len(body), len(txt)) + 1)`
ClipLoopStep ==
    /\ clip_pc = "loop"
    /\ clip_i < Min({Len(body), Len(txt)})
    /\ clip_i' = clip_i + 1
    /\ overlap' = NextOverlap(overlap, body, txt, clip_i + 1)
    /\ UNCHANGED <<clip_pc, args, body, txt, clip_ret>>
    /\ UNCHANGED notClipVars

\* utils.py 23
ClipReturn ==
    /\ clip_pc = "loop"
    /\ clip_i = Min({Len(body), Len(txt)})
    /\ clip_ret' = ClipResult(txt, overlap, args.min_overlap)
    /\ clip_pc' = "returned"
    /\ UNCHANGED <<args, body, txt, clip_i, overlap>>
    /\ UNCHANGED notClipVars

ClipInit ==
    /\ clip_pc = "call"
    /\ args \in [body : Strings, txt : Strings, min_overlap : MinOverlaps]
    /\ body = <<>> /\ txt = <<>>
    /\ clip_i = 0
    /\ overlap = 0
    /\ clip_ret = None
    /\ NotClipIdle

ClipNext == ClipStrip \/ ClipLoopStep \/ ClipReturn

SpecClip == ClipInit /\ [][ClipNext]_vars

\* the lengths i >= 0 at which the last i characters of b are the first i of t
Overlaps(b, t) ==
    {i \in 0..Min({Len(b), Len(t)}) : Suffix(b, i) = Prefix(t, i)}
LongestOverlap(b, t) == Max(Overlaps(b, t))

\* C8 as stated: when the longest suffix of body that is a prefix of txt has
\* length L >= min_overlap, clip_overlap returns txt without its first L
\* characters.
C8_Original ==
    clip_pc = "returned" =>
        LET L == LongestOverlap(args.body, args.txt)
        IN  L >= args.min_overlap => clip_ret = DropPrefix(args.txt, L)

\* C8 amended: with body' = body.rstrip() and txt' = txt.lstrip(), when the
\* longest suffix of body' that is a prefix of txt' has length L >= min_overlap,
\* clip_overlap returns txt' without its first L characters.
C8_ClipsLongestOverlapOfStripped ==
    clip_pc = "returned" =>
        LET b == RStrip(args.body)
            t == LStrip(args.txt)
            L == LongestOverlap(b, t)
        IN  L >= args.min_overlap => clip_ret = DropPrefix(t, L)

\* C8 witness: a call that returned with a longest overlap of two characters
\* or more, a shorter overlap beside it, and white space stripped from both
\* arguments
C8_Witness ==
    /\ clip_pc = "returned"
    /\ LongestOverlap(body, txt) >= 2
    /\ LongestOverlap(body, txt) >= args.min_overlap
    /\ args.min_overlap > 0
    /\ Cardinality(Overlaps(body, txt)) >= 3
    /\ args.body # body /\ args.txt # txt

\* C9 as stated: when no suffix of body of length >= min_overlap is a prefix of
\* txt, clip_overlap returns txt unchanged.
C9_Original ==
    clip_pc = "returned" =>
        ((\A i \in Overlaps(args.body, args.txt) : i < args.min_overlap)
            => clip_ret = args.txt)

\* C9 amended: when no suffix of body.rstrip() of length >= min_overlap is a
\* prefix of txt.lstrip(), clip_overlap returns txt.lstrip(): txt without its
\* leading white space and with nothing else removed.
C9_NoOverlapReturnsStripped ==
    clip_pc = "returned" =>
        ((\A i \in Overlaps(RStrip(args.body), LStrip(args.txt)) : i < args.min_overlap)
            => clip_ret = LStrip(args.txt))

\* C9 witness: a call that returned with an overlap shorter than min_overlap
\* and a txt that began with white space
C9_Witness ==
    /\ clip_pc = "returned"
    /\ overlap > 0
    /\ overlap < args.min_overlap
    /\ args.txt # txt
    /\ clip_ret = txt

----------------------------------------------------------------------------
(* Parser.extract_raw (main.py 308-415) and Parser._iter_ch_pages (292-306) *)

\* the most chapters of a book
MaxChapters == 2

\* how many pages a chapter of the model may have
PageCounts == IF scope = "labels" THEN {1} ELSE {1, 2}

\* main.py 46-49
label_type_ignore == {"page number", "equation"}
label_type_text == {"title", "plain text", "header", "footnote", "footer"}
label_type_caption == {"figure caption", "table caption"}
label_type_img == {"figure", "table"}

\* the page image and the page of the model: 20 x 20 pixels, 10 x 10 points,
\* so the column split 0.98 * w_im / 2 is at 9.8 pixels and the caption gap
\* 0.15 * h_im is 3
PageGeom == [w_im |-> 20, h_im |-> 20, w_pg |-> 10, h_pg |-> 10]

\* main.py 61: the default pad = 0.01, which extract_raw (367) does not override
DefaultPad == <<1, 100>>

\* main.py 390: 0.15 * h_im, in hundredths
GapPct == 15

\* polygons of the detector, by two opposite corners, all in the left column:
\* a region at the top, one below it, one right below that, one far below,
\* and a polygon whose points share one x
TopPoly == <<<<2, 0>>, <<8, 2>>>>
FigPoly == <<<<2, 3>>, <<8, 6>>>>
NearPoly == <<<<2, 7>>, <<8, 9>>>>
FarPoly == <<<<2, 14>>, <<8, 18>>>>
DegeneratePoly == <<<<2, 10>>, <<2, 12>>>>

\* what the layout detector may return for one region: category and polygon
DetectorRegions ==
    IF scope = "chapters"
    THEN {[cat |-> <<2, "plain text">>, poly |-> NearPoly],
          [cat |-> <<2, "plain text">>, poly |-> DegeneratePoly]}
    ELSE {[cat |-> <<2, "plain text">>, poly |-> TopPoly],
          [cat |-> <<1, "figure">>, poly |-> FigPoly],
          [cat |-> <<2, "plain text">>, poly |-> NearPoly],
          [cat |-> <<9, "figure caption">>, poly |-> NearPoly],
          [cat |-> <<2, "plain text">>, poly |-> FarPoly]}

\* how many regions the detector may return for one page
LayoutSizes == IF scope = "chapters" THEN {0, 1, 2} ELSE {1, 2, 3}

\* texts of the document, as sequences of characters
EmptyTxt == <<>>
BodyTxt == <<"B", "o", "d", "y">>
FigTxt == <<"F", "i", "g", "1">>
FIGTxt == <<"F", "I", "G", "1">>
figTxt == <<"f", "i", "g", "1">>

\* what area.extract_text() may return for a region
ExtractTexts ==
    IF scope = "chapters" THEN {BodyTxt} ELSE {EmptyTxt, BodyTxt, FigTxt, FIGTxt, figTxt}

\* area.chars of a region with text t: every character in one font
CharsOf(t) == [i \in 1..Len(t) |-> [fontname |-> "Times", size |-> 80]]

\* main.py 74-84 as a function of the characters
RECURSIVE ExtractFonts(_, _)
ExtractFonts(chars, k) ==
    IF chars = <<>> THEN <<>>
    ELSE LET ch == chars[Len(chars)]
         IN  CounterAddOne(ExtractFonts(SubSeq(chars, 1, Len(chars) - 1), k),
                           <<ch.fontname, Bucket(ch.size, k)>>)

\* str.startswith
StartsWith(t, prefix) == Len(t) >= Len(prefix) /\ SubSeq(t, 1, Len(prefix)) = prefix

\* pg.textboxhorizontals entries of the pdfplumber path: a box in PDF
\* coordinates (origin at the bottom), well formed or not
PlumberBoxes ==
    {[x0 |-> 5, y0 |-> 10, x1 |-> 20, y1 |-> 15],
     [x0 |-> 5, y0 |-> 10, x1 |-> 5, y1 |-> 15]}

\* TrackerEntry as PreTracker.add_entry commits it: records are appended
\* verbatim, one per call
NewTrackerEntry(pg_num, label_type, label_id, t, f) ==
    [pgs |-> <<pg_num>>, label_type |-> label_type, labels |-> <<label_id>>,
     txt |-> t, fonts |-> f]

\* the pages of chapter c: self.pdf[start:end] (main.py 305-306)
NumPages(c) == chapters[c][2] - chapters[c][1]
\* pg.page_number of the k-th page of chapter c (pdfplumber numbers from 1)
PageNumber(c, k) == chapters[c][1] + k

\* open(path, "w") and img.save(path): the file is created or replaced
WriteFile(dir, ch, name, content) ==
    [k \in DOMAIN dir \cup {<<ch, name>>} |->
        IF k = <<ch, name>> THEN content ELSE dir[k]]

\* main.py 317-320: the next chapter begins with a fresh PreTracker
NextChapter ==
    /\ raw_pc = "chapter"
    /\ ch_i < Len(chapters)
    /\ ch_i' = ch_i + 1
    /\ pretracker' = <<>>
    /\ raw_kinds' = <<>>
    /\ pg_k' = 0
    /\ raw_pc' = "page"
    /\ UNCHANGED <<scope, chapters, use_pdfplumber, extract_figs, boxes, label_num,
                   last_entry, last_y1, rawdir, img_dir>>
    /\ UNCHANGED notRawVars

\* main.py 317: the iterator is exhausted and extract_raw returns
FinishRaw ==
    /\ raw_pc = "chapter"
    /\ ch_i = Len(chapters)
    /\ raw_pc' = "done"
    /\ UNCHANGED <<scope, chapters, use_pdfplumber, extract_figs, ch_i, pg_k, boxes,
                   label_num, last_entry, last_y1, pretracker, rawdir, img_dir, raw_kinds>>
    /\ UNCHANGED notRawVars

\* main.py 322-334: a page of the pdfplumber path begins
StartPagePlumber ==
    /\ raw_pc = "page"
    /\ pg_k < NumPages(ch_i)
    /\ use_pdfplumber
    /\ \E n \in LayoutSizes, bs \in [1..MaxLabels -> PlumberBoxes] :
          /\ n <= MaxLabels
          /\ boxes' = SubSeq(bs, 1, n)
          \* 332: assert pg.textboxhorizontals
          /\ raw_pc' = IF n = 0 THEN "assert_failed" ELSE "plumber_label"
    /\ label_num' = 0
    /\ UNCHANGED <<scope, chapters, use_pdfplumber, extract_figs, ch_i, pg_k,
                   last_entry, last_y1, pretracker, rawdir, img_dir, raw_kinds>>
    /\ UNCHANGED notRawVars

SkipsNothing(t) == FALSE

\* main.py 348-350: `if not txt: continue`
SkipsEmpty(t) == t = EmptyTxt

\* main.py 334-354: one iteration of the loop over pg.textboxhorizontals
PlumberLabel ==
    /\ raw_pc = "plumber_label"
    /\ boxes # <<>>
    /\ LET b == Head(boxes)
       IN  IF ~ (b.x0 < b.x1 /\ b.y0 < b.y1)
           THEN \* 336
                /\ raw_pc' = "assert_failed"
                /\ UNCHANGED <<boxes, label_num, pretracker, raw_kinds>>
           ELSE \E t \in ExtractTexts :
                /\ pretracker' =
                      IF SkipsEmpty(t)
                      THEN pretracker  \* 348-350
                      ELSE Append(pretracker,
                                  NewTrackerEntry(PageNumber(ch_i, pg_k + 1), None,
                                                  label_num, t,
                                                  ExtractFonts(CharsOf(t), 4)))
                /\ raw_kinds' = IF SkipsEmpty(t) THEN raw_kinds
                                 ELSE Append(raw_kinds, None)
                /\ boxes' = Tail(boxes)
                /\ label_num' = label_num + 1
                /\ UNCHANGED raw_pc
    /\ UNCHANGED <<scope, chapters, use_pdfplumber, extract_figs, ch_i, pg_k,
                   last_entry, last_y1, rawdir, img_dir>>
    /\ UNCHANGED notRawVars

\* main.py 357-359: a page of the layout path begins with _get_labels
StartPageLayout ==
    /\ raw_pc = "page"
    /\ pg_k < NumPages(ch_i)
    /\ ~ use_pdfplumber
    /\ \E n \in LayoutSizes, layout \in [1..MaxLabels -> DetectorRegions] :
          /\ n <= MaxLabels
          /\ IF \E i \in 1..n : ~ ValidBBox(BBoxOf(layout[i].poly))
             THEN \* 188
                  /\ raw_pc' = "assert_failed"
                  /\ UNCHANGED boxes
             ELSE /\ boxes' = SortLabels(
                        [i \in 1..n |->
                            NewLabel(i, layout[i].cat[1], layout[i].cat[2],
                                     BBoxOf(layout[i].poly))],
                        PageGeom.w_im)
                  /\ raw_pc' = "label"
    /\ last_entry' = NoEntry
    /\ last_y1' = 0
    /\ UNCHANGED <<scope, chapters, use_pdfplumber, extract_figs, ch_i, pg_k,
                   label_num, pretracker, rawdir, img_dir, raw_kinds>>
    /\ UNCHANGED notRawVars

IsCaptionOnlyFig(lab, t, y0) ==
    /\ extract_figs
    /\ \/ lab.label_type \in label_type_caption
       \/ /\ last_entry # NoEntry
          /\ last_entry.label_type \in label_type_img
          /\ lab.label_type \in label_type_text
          /\ (y0 - last_y1) * 100 < GapPct * PageGeom.h_im * 16 * PageGeom.h_im * DefaultPad[2]
          /\ StartsWith(t, <<"F", "i", "g">>)

\* main.py 383-395: the condition under which a label is retagged as a caption
IsCaption(lab, t, y0) ==
    /\ extract_figs
    /\ \/ lab.label_type \in label_type_caption
       \/ /\ last_entry # NoEntry
          /\ last_entry.label_type \in label_type_img
          /\ lab.label_type \in label_type_text
          /\ (y0 - last_y1) * 100 < GapPct * PageGeom.h_im * 16 * PageGeom.h_im * DefaultPad[2]
          /\ (StartsWith(t, <<"F", "i", "g">>) \/ StartsWith(t, <<"F", "I", "G">>))

LastIdNeverFigure ==
    IF last_entry = NoEntry THEN "X-Y"
    ELSE ToString(PageNumber(ch_i, pg_k + 1)) \o "-Y"

\* main.py 396-401: last_id
LastId ==
    IF last_entry = NoEntry THEN "X-Y"
    ELSE IF last_entry.label_type \notin label_type_img
    THEN ToString(PageNumber(ch_i, pg_k + 1)) \o "-Y"
    ELSE ToString(last_entry.pgs[1]) \o "-" \o ToString(last_entry.labels[1])

\* main.py 360-413: one iteration of the loop over the sorted labels
LayoutLabel ==
    /\ raw_pc = "label"
    /\ boxes # <<>>
    /\ LET lab == Head(boxes)
           bb == CalcPgBBox(lab.raw_bbox, PageGeom, DefaultPad)
           pg_num == PageNumber(ch_i, pg_k + 1)
           is_img == lab.label_type \in label_type_img
       IN  IF ~ ValidPgBBox(bb)
           THEN \* 368
                /\ raw_pc' = "assert_failed"
                /\ UNCHANGED <<boxes, last_entry, last_y1, pretracker, img_dir,
                               raw_kinds>>
           ELSE \E t \in (IF is_img THEN {None} ELSE ExtractTexts) :
                LET f == IF is_img THEN None ELSE ExtractFonts(CharsOf(t), 4)
                    \* 370-375
                    dir1 == IF extract_figs /\ is_img
                            THEN WriteFile(img_dir, ch_i,
                                           ToString(pg_num) \o "-" \o ToString(lab.id)
                                               \o ".png",
                                           None)
                            ELSE img_dir
                    cap == IsCaption(lab, t, bb.y0)
                    \* 403
                    type == IF cap THEN "FigureCaption_" \o LastId ELSE lab.label_type
                    \* 405-408
                    dir2 == IF cap THEN WriteFile(dir1, ch_i, LastId \o ".txt", t)
                            ELSE dir1
                    entry == NewTrackerEntry(pg_num, type, lab.id, t, f)
                IN  /\ img_dir' = dir2
                    /\ pretracker' = Append(pretracker, entry)
                    /\ raw_kinds' = Append(raw_kinds, lab.label_type)
                    /\ last_entry' = entry
                    /\ last_y1' = bb.y1
                    /\ boxes' = Tail(boxes)
                    /\ UNCHANGED raw_pc
    /\ UNCHANGED <<scope, chapters, use_pdfplumber, extract_figs, ch_i, pg_k,
                   label_num, rawdir>>
    /\ UNCHANGED notRawVars

\* main.py 322, 355, 360: the labels of the page are exhausted; the next page
EndPage ==
    /\ raw_pc \in {"plumber_label", "label"}
    /\ boxes = <<>>
    /\ pg_k' = pg_k + 1
    /\ raw_pc' = "page"
    /\ UNCHANGED <<scope, chapters, use_pdfplumber, extract_figs, ch_i, boxes,
                   label_num, last_entry, last_y1, pretracker, rawdir, img_dir, raw_kinds>>
    /\ UNCHANGED notRawVars

\* main.py 415: pretracker.to_file(self.rawdir / f"{ch_i}.json")
WriteRaw ==
    /\ raw_pc = "page"
    /\ pg_k = NumPages(ch_i)
    /\ rawdir' = [c \in DOMAIN rawdir \cup {ch_i} |->
                     IF c = ch_i THEN pretracker ELSE rawdir[c]]
    /\ raw_pc' = "chapter"
    /\ UNCHANGED <<scope, chapters, use_pdfplumber, extract_figs, ch_i, pg_k, boxes,
                   label_num, last_entry, last_y1, pretracker, img_dir, raw_kinds>>
    /\ UNCHANGED notRawVars

\* cfg.chapters for chapters of the given page counts, one after the other
RECURSIVE ChapterRanges(_, _)
ChapterRanges(counts, start) ==
    IF counts = <<>> THEN <<>>
    ELSE <<<<start, start + Head(counts)>>>>
            \o ChapterRanges(Tail(counts), start + Head(counts))

RawInitIn(sc, max_chapters) ==
    /\ scope = sc
    /\ \E n \in 1..max_chapters : \E counts \in [1..n -> PageCounts] :
          chapters = ChapterRanges(counts, 0)
    /\ use_pdfplumber \in BOOLEAN
    /\ extract_figs \in BOOLEAN
    /\ raw_pc = "chapter"
    /\ ch_i = 0
    /\ pg_k = 0
    /\ boxes = <<>>
    /\ label_num = 0
    /\ last_entry = NoEntry
    /\ last_y1 = 0
    /\ pretracker = <<>>
    /\ rawdir = <<>>
    /\ img_dir = <<>>
    /\ raw_kinds = <<>>
    /\ NotRawIdle

RawInit == RawInitIn("chapters", MaxChapters)

RawNext ==
    \/ NextChapter
    \/ FinishRaw
    \/ StartPagePlumber
    \/ PlumberLabel
    \/ StartPageLayout
    \/ LayoutLabel
    \/ EndPage
    \/ WriteRaw

SpecRaw == RawInit /\ [][RawNext]_vars

\* C4: a bbox assertion that fails while chapter c is processed aborts only
\* chapter c: every later chapter c+1..n is still processed and its raw file
\* written. extract_raw has returned or raised once raw_pc is "done" or
\* "assert_failed", so the claim is about the files that exist then.
C4_LaterChaptersStillWritten ==
    raw_pc = "assert_failed" =>
        \A c \in (ch_i + 1)..Len(chapters) : c \in DOMAIN rawdir

\* extract_raw on a book of one chapter whose pages carry figures, captions
\* and texts of every kind, so that the caption logic of 383-408 is exercised
LabelsInit == RawInitIn("labels", 1)

SpecLabels == LabelsInit /\ [][RawNext]_vars

\* the label types the detector and the pdfplumber path give a record
RawLabelTypes ==
    label_type_ignore \cup label_type_text \cup label_type_caption
        \cup label_type_img \cup {None, "full column", "sub column"}

\* a record of the tracker that extract_raw retagged (main.py 403)
IsRetagged(e) == e.label_type \notin RawLabelTypes

\* the back-reference <p>-<l> to a record
BackRef(e) == ToString(e.pgs[1]) \o "-" \o ToString(e.labels[1])

\* the record committed just before record i on the same page, if any
HasPrevOnPage(i) == i > 1 /\ pretracker[i - 1].pgs = pretracker[i].pgs

\* the sidecar file of the id exists in the chapter's image directory
HasSidecar(id) == <<ch_i, id \o ".txt">> \in DOMAIN img_dir

\* C11 as stated: every retagged record names, as FigureCaption_<p>-<l>, the
\* page and label id of a figure/table record committed earlier in the same
\* chapter, and the sidecar file has the same key <p>-<l>.
C11_RetagNamesEarlierFigure ==
    \A i \in 1..Len(pretracker) :
        IsRetagged(pretracker[i]) =>
            \E j \in 1..(i - 1) :
                /\ pretracker[j].label_type \in label_type_img
                /\ pretracker[i].label_type = "FigureCaption_" \o BackRef(pretracker[j])
                /\ HasSidecar(BackRef(pretracker[j]))

\* the id a retagged record i carries by main.py 396-401, read off the tracker
ExpectedId(i) ==
    IF ~ HasPrevOnPage(i) THEN "X-Y"
    ELSE IF pretracker[i - 1].label_type \notin label_type_img
    THEN ToString(pretracker[i].pgs[1]) \o "-Y"
    ELSE BackRef(pretracker[i - 1])

\* C11 amended: a retagged record that directly follows a figure/table record
\* on its page is tagged FigureCaption_<p>-<l> with the page and label id of
\* that record; one that follows another kind of record is tagged
\* FigureCaption_<page>-Y, and the first record of a page FigureCaption_X-Y;
\* in every case the sidecar file is keyed by the same id.
C11_RetagNamesPrecedingRecord ==
    \A i \in 1..Len(pretracker) :
        IsRetagged(pretracker[i]) =>
            /\ pretracker[i].label_type = "FigureCaption_" \o ExpectedId(i)
            /\ HasSidecar(ExpectedId(i))

\* C11 witness: a record was retagged right after a figure/table record
C11_Witness ==
    \E i \in 2..Len(pretracker) :
        /\ IsRetagged(pretracker[i])
        /\ pretracker[i - 1].label_type \in label_type_img
        /\ pretracker[i].label_type = "FigureCaption_" \o BackRef(pretracker[i - 1])
        /\ HasSidecar(BackRef(pretracker[i - 1]))

----------------------------------------------------------------------------
(* Parser.clean_raw (main.py 492-523) *)

\* the most records in a chapter's raw file
MaxRecords == 2

\* a raw file: records of one page, numbered in reading order, a page number
\* first and then alternating with plain text
RawFiles ==
    {[k \in 1..n |-> NewTrackerEntry(1, IF k % 2 = 1 THEN "page number" ELSE "plain text",
                                     k - 1, BodyTxt, ExtractFonts(CharsOf(BodyTxt), 4))] :
        n \in 0..MaxRecords}

\* main.py 493: range(1, len(self.cfg.chapters))
CleanRange == 1..(Len(chapters) - 1)

\* JoinTracker.add_entry when it does not raise: the record joins the entries
JoinAddEntry(tr, rec) == Append(tr, rec)

BreakOnEarlyExit(k, d) == Len(d)

\* main.py 509-510: `except EarlyExitException: pass`, the loop goes on with
\* the next record
AfterEarlyExit(k, d) == k + 1

\* main.py 493-497: the next chapter's raw file is loaded, with a new JoinTracker
CleanNextChapter ==
    /\ clean_pc = "chapter"
    /\ clean_i + 1 \in CleanRange
    /\ clean_i' = clean_i + 1
    /\ IF clean_i + 1 \in DOMAIN rawdir
       THEN /\ data' = rawdir[clean_i + 1]
            /\ clean_pc' = "entry"
       ELSE \* 494: open() raises FileNotFoundError
            /\ data' = <<>>
            /\ clean_pc' = "file_not_found"
    /\ tracker' = <<>>
    /\ entry_k' = 0
    /\ add_calls' = [c \in DOMAIN add_calls \cup {clean_i + 1} |->
                        IF c = clean_i + 1 THEN <<>> ELSE add_calls[c]]
    /\ early_exits' = [c \in DOMAIN early_exits \cup {clean_i + 1} |->
                          IF c = clean_i + 1 THEN {} ELSE early_exits[c]]
    /\ UNCHANGED cleandir
    /\ UNCHANGED notCleanVars

\* main.py 499-510: one iteration of `for entry in data`. JoinTracker.add_entry
\* either commits the record or raises EarlyExitException; which one is the
\* tracker's decision, any outcome is possible here
CleanEntry ==
    /\ clean_pc = "entry"
    /\ entry_k < Len(data)
    /\ add_calls' = [add_calls EXCEPT ![clean_i] = Append(@, data[entry_k + 1])]
    /\ \E raises \in BOOLEAN :
          IF raises
          THEN /\ entry_k' = AfterEarlyExit(entry_k, data)
               /\ early_exits' = [early_exits EXCEPT ![clean_i] = @ \cup {entry_k + 1}]
               /\ UNCHANGED tracker
          ELSE /\ entry_k' = entry_k + 1
               /\ tracker' = JoinAddEntry(tracker, data[entry_k + 1])
               /\ UNCHANGED early_exits
    /\ UNCHANGED <<clean_pc, clean_i, data, cleandir>>
    /\ UNCHANGED notCleanVars

\* main.py 523: tracker.to_file(self.cleandir / f"{i}.json")
CleanWrite ==
    /\ clean_pc = "entry"
    /\ entry_k = Len(data)
    /\ cleandir' = [c \in DOMAIN cleandir \cup {clean_i} |->
                       IF c = clean_i THEN tracker ELSE cleandir[c]]
    /\ clean_pc' = "chapter"
    /\ UNCHANGED <<clean_i, data, entry_k, tracker, add_calls, early_exits>>
    /\ UNCHANGED notCleanVars

\* main.py 493: the range is exhausted and clean_raw returns
CleanFinish ==
    /\ clean_pc = "chapter"
    /\ clean_i + 1 \notin CleanRange
    /\ clean_pc' = "done"
    /\ UNCHANGED <<clean_i, data, entry_k, tracker, add_calls, early_exits, cleandir>>
    /\ UNCHANGED notCleanVars

\* clean_raw starts on the raw files extract_raw wrote, one per chapter
CleanInit ==
    /\ clean_pc = "chapter"
    /\ clean_i = 0
    /\ data = <<>>
    /\ entry_k = 0
    /\ tracker = <<>>
    /\ add_calls = <<>>
    /\ early_exits = <<>>
    /\ cleandir = <<>>
    /\ \E n \in 1..(MaxChapters + 1) :
          /\ chapters = ChapterRanges([c \in 1..n |-> 1], 0)
          /\ rawdir \in [1..n -> RawFiles]
    /\ RawAtRest
    /\ NotCleanIdle

CleanNext == CleanNextChapter \/ CleanEntry \/ CleanWrite \/ CleanFinish

SpecClean == CleanInit /\ [][CleanNext]_vars

C12_EveryRawChapterCleaned ==
    clean_pc = "done" => DOMAIN rawdir \subseteq DOMAIN cleandir

\* C13: with non-empty text, heading and noise histograms the work-queue loop
\* of determine_fonts never looks up a rank past the end of a ranked list, so
\* no run ends in an IndexError.
C13_QueueNeverRunsPastEnd ==
    (text_cnt # <<>> /\ head_cnt # <<>> /\ bad_cnt # <<>>) => det_pc # "index_error"

\* C14: when the heading (resp. noise) histogram is empty, determine_fonts
\* performs no most-common lookup on it and does not fault.
C14_EmptyHistogramNotLookedUp ==
    /\ head_cnt = <<>> => (n_lookups[2] = 0 /\ det_pc # "index_error")
    /\ bad_cnt = <<>> => (n_lookups[3] = 0 /\ det_pc # "index_error")

\* the top font of a histogram was excluded from the body set as contested
\* with category kind (main.py 463-468)
Contested(kind) == \E i \in 0..Len(text_cnt) : <<kind, i>> \in blacklist

\* C15: a completed run puts the top heading (resp. noise) font in the heading
\* (resp. noise) set whenever that font has share >= cutoff in its own
\* histogram and was excluded from the body set as contested, at whatever
\* rank of the text histogram it stands.
C15_ContestedTopFontClaimed ==
    det_pc = "done" =>
        \A kind \in {1, 2} :
            (/\ Contested(kind)
             /\ ShareAtLeast(Cnts(kind), MostCommon(Cnts(kind))[1][1], cutoff))
                => MostCommon(Cnts(kind))[1][1] \in Range(cfg_fonts[kind + 1])

\* a step of extract_raw that commits the next label of the layout path
CommitsLabel == raw_pc = "label" /\ boxes # <<>> /\ pretracker' # pretracker

\* the label about to be committed directly follows a figure/table record on
\* the page and its top lies less than 0.15 * h_im below that record's bottom
FollowsFigureClosely ==
    /\ last_entry # NoEntry
    /\ last_entry.label_type \in label_type_img
    /\ (CalcPgBBox(Head(boxes).raw_bbox, PageGeom, DefaultPad).y0 - last_y1) * 100
           < GapPct * PageGeom.h_im * 16 * PageGeom.h_im * DefaultPad[2]

\* the text begins with "fig" in some letter case
BeginsWithFigAnyCase(t) ==
    Len(t) >= 3 /\ t[1] \in {"f", "F"} /\ t[2] \in {"i", "I"} /\ t[3] \in {"g", "G"}

\* the text begins with "Fig" or with "FIG"
BeginsWithFigOrFIG(t) ==
    StartsWith(t, <<"F", "i", "g">>) \/ StartsWith(t, <<"F", "I", "G">>)

\* C16 as stated: with extract_figs on, a text-like label that directly follows
\* a figure/table record within the gap threshold and whose text begins with
\* "fig" in any letter case is committed as FigureCaption_<page>-<label> of
\* that record, and a label of a caption type is always committed retagged.
C16_FigAnyCaseRetagged ==
    [][(CommitsLabel /\ extract_figs) =>
          /\ Head(boxes).label_type \in label_type_caption => IsRetagged(last_entry')
          /\ (/\ Head(boxes).label_type \in label_type_text
              /\ FollowsFigureClosely
              /\ BeginsWithFigAnyCase(last_entry'.txt))
                => last_entry'.label_type = "FigureCaption_" \o BackRef(last_entry)]_vars

\* C16 amended: the text must begin with "Fig" or with "FIG"; a text-like
\* label whose text begins otherwise, "fig" included, keeps its label type. A
\* label of a caption type is always committed retagged.
C16_FigOrFIGRetagged ==
    [][(CommitsLabel /\ extract_figs) =>
          /\ Head(boxes).label_type \in label_type_caption => IsRetagged(last_entry')
          /\ Head(boxes).label_type \in label_type_text =>
                IF FollowsFigureClosely /\ BeginsWithFigOrFIG(last_entry'.txt)
                THEN last_entry'.label_type = "FigureCaption_" \o BackRef(last_entry)
                ELSE last_entry'.label_type = Head(boxes).label_type]_vars

\* C16 witness: a text-like label whose text begins with "FIG" was committed
\* right after a figure/table record and carries that record's back-reference
C16_Witness ==
    /\ extract_figs
    /\ \E i \in 2..Len(pretracker) :
          /\ raw_kinds[i] \in label_type_text
          /\ pretracker[i - 1].label_type \in label_type_img
          /\ StartsWith(pretracker[i].txt, <<"F", "I", "G">>)
          /\ pretracker[i].label_type = "FigureCaption_" \o BackRef(pretracker[i - 1])

\* C17 as stated: on both paths a text-bearing label whose extracted text is
\* empty is skipped, so the tracker never holds a record of a text-bearing
\* label with empty text.
C17_NoEmptyTextRecord ==
    \A i \in 1..Len(pretracker) :
        raw_kinds[i] \notin label_type_img => pretracker[i].txt # EmptyTxt

\* C17 amended: on the pdfplumber path a label is either skipped or committed
\* with non-empty text, and the loop goes on with the next label; on the
\* layout-model path every label is committed, empty text or not, and the
\* loop goes on with the next label.
C17_PlumberSkipsLayoutCommits ==
    [][/\ (raw_pc = "plumber_label" /\ boxes # <<>> /\ raw_pc' = "plumber_label") =>
            /\ boxes' = Tail(boxes)
            /\ \/ pretracker' = pretracker
               \/ /\ Len(pretracker') = Len(pretracker) + 1
                  /\ pretracker'[Len(pretracker')].txt # EmptyTxt
       /\ (raw_pc = "label" /\ boxes # <<>> /\ raw_pc' = "label") =>
            /\ boxes' = Tail(boxes)
            /\ Len(pretracker') = Len(pretracker) + 1]_vars

\* C17 witness: a pdfplumber run that skipped the first label of the page for
\* its empty text, committed the second and wrote the chapter's raw file
C17_Witness ==
    /\ use_pdfplumber
    /\ raw_pc = "done"
    /\ label_num >= 2
    /\ 1 \in DOMAIN rawdir
    /\ \A i \in 1..Len(rawdir[1]) : rawdir[1][i].labels # <<0>>
    /\ \E i \in 1..Len(rawdir[1]) : rawdir[1][i].labels = <<1>>

====
